---- MODULE Spec2Model ----
(***************************************************************************)
(* DIDIndexer: batched, concurrency-bounded extraction of a registry.      *)
(*                                                                         *)
(* These specifications share this module:                                 *)
(*   Spec       the pipeline indexAllDomains (gateway calls, retries,      *)
(*              windows of concurrentMap, progress, relationship build)    *)
(*   SpecBatch  the pure function createBatches on drawn inputs            *)
(*   SpecBuild  the pure function buildSubdomainRelations on drawn inputs  *)
(*   SpecStats  the pure function getStatistics on drawn inputs            *)
(*   SpecConfig the pipeline started with any configuration main can build *)
(*   SpecRetry  the pipeline over a small registry with more attempts      *)
(*   SpecLive   the pipeline with the fairness of its scheduling           *)
(* Names and addresses are sequences of one-character strings, so that     *)
(* split('.'), join('.') and toLowerCase() are computed, not assumed.      *)
(***************************************************************************)
EXTENDS Integers, Sequences, FiniteSets, TLC

VARIABLES
  config,       \* IndexerConfig: batchSize, concurrency, retryAttempts
  registrySize, \* number of tokens the registry holds (what totalSupply() answers)
  pc,           \* position of indexAllDomains
  stage,        \* stage whose concurrentMap was entered last: none, tokenIds, details
  totalSupply,  \* local of indexAllDomains
  batches,      \* per stage: the batches handed to concurrentMap
  chunking,     \* createBatchesFromArray: done, or looping (its loop never ends)
  units,        \* per stage, per batch: the worker promise fn(item), while the
                \* concurrentMap of the stage has not returned
  cmI,          \* concurrentMap: loop variable i
  cmState,      \* concurrentMap: idle, loop (at the loop head), await, rejected
  cmChunk,      \* concurrentMap: unit indices of the chunk being awaited
  settled,      \* concurrentMap: unit indices of the last chunk dispatched, in the
                \* order they fulfilled
  cmResults,    \* concurrentMap: results
  processed,    \* per stage: the closure variable processed
  progress,     \* every ProgressData handed to onProgress, in order
  tokenIds,     \* result of batchGetTokenIds
  domains,      \* result of batchGetDomainDetails
  returned,     \* what indexAllDomains resolved with
  failure,      \* what indexAllDomains rejected with
  cbArgs,       \* SpecBatch: arguments of createBatches
  cbOut,        \* SpecBatch: its return value
  recs,         \* SpecBuild: the DomainData array
  builds,       \* SpecBuild: how many times buildSubdomainRelations ran on it
  statIn,       \* SpecStats: the DomainData array handed to getStatistics
  statOut       \* SpecStats: its return value

pipeVars == <<config, registrySize, pc, stage, totalSupply, batches, chunking, units,
              cmI, cmState, cmChunk, settled, cmResults, processed, progress,
              tokenIds, domains, returned, failure>>
batchVars == <<cbArgs, cbOut>>
buildVars == <<recs, builds>>
statVars == <<statIn, statOut>>
vars == <<pipeVars, batchVars, buildVars, statVars>>

----------------------------------------------------------------------------
(* Bounds *)

\* Spec: tokens in the registry, and the largest batchSize, concurrency, retryAttempts
MaxTotal == 4
MaxBatchSize == 4
MaxConcurrency == 3
MaxRetry == 2
\* Spec: concurrency + retryAttempts of a configuration is at most this, so that the
\* widest windows are followed with few retries and the longest retries in narrow windows
MaxLoad == 5
\* Spec: iterations followed of a loop that never ends
MaxSpin == 2
\* SpecBatch: largest total and chunk size handed to createBatches
MaxCount == 12
MaxChunk == 5
\* SpecBuild: longest record array
MaxRecs == 4

Min(a, b) == IF a < b THEN a ELSE b

----------------------------------------------------------------------------
(* Strings as character sequences *)

Dot == "."

\* String.prototype.includes('.')
HasDot(s) == \E k \in 1..Len(s) : s[k] = Dot

\* String.prototype.split('.')
RECURSIVE SplitDot(_)
SplitDot(s) ==
  IF ~HasDot(s) THEN <<s>>
  ELSE LET k == CHOOSE k \in 1..Len(s) : s[k] = Dot /\ \A j \in 1..(k-1) : s[j] # Dot
       IN <<SubSeq(s, 1, k-1)>> \o SplitDot(SubSeq(s, k+1, Len(s)))

\* Array.prototype.join('.')
RECURSIVE JoinDot(_)
JoinDot(parts) ==
  IF parts = <<>> THEN <<>>
  ELSE IF Len(parts) = 1 THEN parts[1]
  ELSE parts[1] \o <<Dot>> \o JoinDot(Tail(parts))

\* String.prototype.toLowerCase(), on the characters addresses are made of
LowerChar(c) ==
  CASE c = "A" -> "a" [] c = "B" -> "b" [] c = "C" -> "c" [] c = "D" -> "d"
    [] c = "E" -> "e" [] c = "F" -> "f" [] OTHER -> c
toLowerCase(s) == [k \in 1..Len(s) |-> LowerChar(s[k])]

\* Array.prototype.includes
Includes(list, x) == \E k \in 1..Len(list) : list[k] = x

RECURSIVE Flatten(_)
Flatten(ss) == IF ss = <<>> THEN <<>> ELSE Head(ss) \o Flatten(Tail(ss))

----------------------------------------------------------------------------
(* Batch Scheduler: chunking *)

\* Math.min dropped: the last range runs past total
BatchEndUnclamped(i, batchSize, total) == i + batchSize
BatchEnd(i, batchSize, total) == Min(i + batchSize, total)

RECURSIVE CreateBatchesFrom(_, _, _, _)
CreateBatchesFrom(i, total, batchSize, acc) ==
  IF i < total
  THEN CreateBatchesFrom(i + batchSize, total, batchSize,
                         Append(acc, [start |-> i, end |-> BatchEnd(i, batchSize, total)]))
  ELSE acc

createBatches(total, batchSize) == CreateBatchesFrom(0, total, batchSize, <<>>)

\* whether the loop of createBatches ends: i += 0 never reaches a positive total
CountLoopEnds(total, batchSize) == total <= 0 \/ batchSize >= 1

\* one item too many: the end bound taken as inclusive
SliceInclusive(items, from, to) == SubSeq(items, from + 1, Min(to + 1, Len(items)))
\* Array.prototype.slice(from, to) on a 0-based array, 0 <= from
Slice(items, from, to) == SubSeq(items, from + 1, Min(to, Len(items)))

\* the loop of createBatchesFromArray; it ends only when batchSize >= 1
RECURSIVE CreateBatchesFromArrayLoop(_, _, _, _)
CreateBatchesFromArrayLoop(i, items, batchSize, acc) ==
  IF i < Len(items)
  THEN CreateBatchesFromArrayLoop(i + batchSize, items, batchSize,
                                  Append(acc, Slice(items, i, i + batchSize)))
  ELSE acc

createBatchesFromArray(items, batchSize) ==
  CreateBatchesFromArrayLoop(0, items, batchSize, <<>>)

\* whether the loop of createBatchesFromArray ends: i += 0 never reaches items.length
ChunkLoopEnds(items, batchSize) == Len(items) = 0 \/ batchSize >= 1

\* the chunk size of the identifier stage used for the detail stage as well
detailBatchSizeFull == config.batchSize
\* Math.floor(this.config.batchSize / 2)
detailBatchSize == config.batchSize \div 2

----------------------------------------------------------------------------
(* The registry behind the gateway: token j (0-based index) *)

NameUniverse ==
  << <<"c">>, <<"b", ".", "c">>, <<"x", ".", "y">>, <<"a", ".", "b", ".", "c">>,
     <<"d", ".", "c">>, <<"y">>, <<"b">> >>

RegistryId(j) == 1000 - 7 * j
RegistryName(j) == NameUniverse[j + 1]
RegistryOwner(j) == <<"0", "x", "A", "b">> \o (IF j % 2 = 0 THEN <<"C">> ELSE <<"d", "E">>)
RegistryDid(j) == IF j % 3 = 1 THEN "" ELSE "did"
RegistryAllow(j) == j % 2 = 0

RegistryIndices == 0..(registrySize - 1)

\* BigInt.prototype.toString(), and its inverse inside encodeFunctionData
IdString(n) == ToString(n)
ParseId(s) == CHOOSE j \in RegistryIndices : IdString(RegistryId(j)) = s

\* one read call executed by the contract, as the raw result the gateway returns
ExecuteCall(call) ==
  CASE call.fn = "tokenByIndex" -> [abi |-> "uint256", v |-> RegistryId(call.arg)]
    [] call.fn = "getMetadata" ->
         [abi |-> "metadata",
          domain |-> RegistryName(ParseId(call.arg)),
          did |-> RegistryDid(ParseId(call.arg)),
          notes |-> "note",
          allowSubdomain |-> RegistryAllow(ParseId(call.arg))]
    [] call.fn = "ownerOf" -> [abi |-> "address", v |-> RegistryOwner(ParseId(call.arg))]

\* contract.multicall.staticCall(calls) when it succeeds: one result per call, in
\* call order; bad is the position of a result that no decoder accepts (a registry
\* that does not match the ABI), 0 when every result is well formed
Multicall(calls, bad) ==
  [k \in 1..Len(calls) |-> IF k = bad THEN [abi |-> "bytes"] ELSE ExecuteCall(calls[k])]

\* decodeFunctionResult throws unless the bytes have the function's return shape
Decodes(fn, raw) ==
  raw.abi = (CASE fn = "tokenByIndex" -> "uint256"
               [] fn = "getMetadata" -> "metadata"
               [] fn = "ownerOf" -> "address")

----------------------------------------------------------------------------
(* Workers: one aggregated call per batch *)

Stages == {"tokenIds", "details"}

\* multicallTokenByIndex: the encoded calls of the range [start, end)
TokenByIndexCalls(batch) ==
  [k \in 1..(batch.end - batch.start) |-> [fn |-> "tokenByIndex", arg |-> batch.start + k - 1]]

\* multicallGetDetails: getMetadata and ownerOf pushed in turn for each token
DetailCalls(ids) ==
  [k \in 1..(2 * Len(ids)) |->
     IF k % 2 = 1 THEN [fn |-> "getMetadata", arg |-> ids[(k + 1) \div 2]]
                  ELSE [fn |-> "ownerOf", arg |-> ids[k \div 2]]]

UnitCalls(s, batch) == IF s = "tokenIds" THEN TokenByIndexCalls(batch) ELSE DetailCalls(batch)

\* 0-based positions read by the decode loop of multicallGetDetails
MetadataIndex(i) == i * 2
\* the owner result of the first token read for every token
OwnerIndexFirst(i) == 1
OwnerIndex(i) == i * 2 + 1

TokenIdsDecode(results) ==
  \A k \in 1..Len(results) : Decodes("tokenByIndex", results[k])
DecodeTokenIds(results) == [k \in 1..Len(results) |-> IdString(results[k].v)]

DetailsDecode(ids, results) ==
  \A i \in 0..(Len(ids) - 1) :
     /\ Decodes("getMetadata", results[MetadataIndex(i) + 1])
     /\ Decodes("ownerOf", results[OwnerIndex(i) + 1])
DecodeDetails(ids, results) ==
  [k \in 1..Len(ids) |->
     LET metadata == results[MetadataIndex(k - 1) + 1]
         owner == results[OwnerIndex(k - 1) + 1].v
     IN [id |-> ids[k], name |-> metadata.domain, did |-> metadata.did,
         note |-> metadata.notes, allowSubdomain |-> metadata.allowSubdomain,
         owner |-> toLowerCase(owner), subdomains |-> <<>>]]

WorkerDecodes(s, batch, results) ==
  IF s = "tokenIds" THEN TokenIdsDecode(results) ELSE DetailsDecode(batch, results)
WorkerValue(s, batch, results) ==
  IF s = "tokenIds" THEN DecodeTokenIds(results) ELSE DecodeDetails(batch, results)

\* processed += batch.end - batch.start, with the increment a full batchSize
TokenBatchCountFull(batch) == config.batchSize
TokenBatchCount(batch) == batch.end - batch.start
DetailBatchCount(batch) == Len(batch)
BatchCount(s, batch) == IF s = "tokenIds" THEN TokenBatchCount(batch) ELSE DetailBatchCount(batch)

\* Math.round((current / total) * 100), total > 0
Percentage(current, total) == (200 * current + total) \div (2 * total)

\* the ProgressData built by the two callbacks of indexAllDomains
Notification(s, current, total) ==
  [stage |-> s, current |-> current, total |-> total,
   percentage |-> Percentage(current, total)]

StageTotal(s) == IF s = "tokenIds" THEN totalSupply ELSE Len(tokenIds)

----------------------------------------------------------------------------
(* Retrying Caller *)

\* gives up one attempt early
RetryExhaustedEarly(attempt) == attempt >= config.retryAttempts - 1
\* attempt === this.config.retryAttempts
RetryExhausted(attempt) == attempt = config.retryAttempts

\* this.sleep(1000 * attempt)
BackoffBase == 1000
\* the delay doubled with every attempt
BackoffExponential(attempt) == BackoffBase * 2 ^ attempt
Backoff(attempt) == BackoffBase * attempt

\* the error the staticCall of unit k of stage s rejects with on its attempt-th
\* invocation; from, unit and invocation tell the error objects apart
GatewayError(s, k, attempt) ==
  [kind |-> "RpcError", from |-> s, unit |-> k, invocation |-> attempt]

\* throw new Error('Multicall failed'): the statement after the loop, reached when the
\* loop body never ran
MulticallFailed(s, k) == [kind |-> "Error", from |-> s, unit |-> k, invocation |-> 0]

\* a fresh generic error thrown in place of the one caught
RethrownGeneric(error) == [error EXCEPT !.kind = "Error", !.invocation = 0]
\* throw error: the error caught on the last attempt, as it is
Rethrown(error) == error

\* a retry that hands staticCall the calls without the first of them
RetryCallsRest(calls, attempt) == IF attempt = 1 THEN calls ELSE Tail(calls)
\* staticCall(calls): every attempt passes the array the worker built
RetryCalls(calls, attempt) == calls

\* what decodeFunctionResult throws for unit k of stage s
DecodeError(s, k) == [kind |-> "DecodeError", from |-> s, unit |-> k, invocation |-> 0]

\* the decoder called inside the try block: its error is caught and retried
DecodeThrowsInsideTry(u, exhausted) ==
  IF exhausted THEN [u EXCEPT !.st = "failed", !.error = "DecodeError"]
  ELSE [u EXCEPT !.st = "sleeping", !.slept = @ + Backoff(u.attempt)]
\* the decoder throws in the worker, after executeMulticallWithRetry returned: the
\* worker promise rejects
DecodeThrows(u, exhausted) == [u EXCEPT !.st = "failed", !.error = "DecodeError"]

----------------------------------------------------------------------------
(* Batch Scheduler: concurrentMap and the Promise.all it awaits *)

RangeSeq(lo, hi) == [k \in 1..(hi - lo + 1) |-> lo + k - 1]

\* every remaining item dispatched at once
ChunkOfAll(i, concurrency, n) == RangeSeq(i + 1, n)
\* items.slice(i, i + concurrency), as 1-based unit indices
ChunkOf(i, concurrency, n) == RangeSeq(i + 1, Min(i + concurrency, n))

\* the loop variable advanced by one item
NextWindowByOne(i, concurrency) == i + 1
\* i += concurrency
NextWindow(i, concurrency) == i + concurrency

\* values in the order the promises fulfilled
PromiseAllValuesAsSettled(chunk, order, us) ==
  [k \in 1..Len(chunk) |-> IF k <= Len(order) THEN us[order[k]].result ELSE <<>>]
\* Promise.all fulfils with the values in the order of its input promises
PromiseAllValues(chunk, order, us) == [k \in 1..Len(chunk) |-> us[chunk[k]].result]

\* fulfils as soon as one input promise has
PromiseAnyFulfilled(chunk, us) == \E k \in 1..Len(chunk) : us[chunk[k]].st = "done"
\* Promise.all fulfils once every input promise has
PromiseAllFulfilled(chunk, us) == \A k \in 1..Len(chunk) : us[chunk[k]].st = "done"

\* never rejects: a failed unit is swallowed
PromiseAllNeverRejected(chunk, us) == FALSE
\* Promise.all rejects as soon as one input promise has
PromiseAllRejected(chunk, us) == \E k \in 1..Len(chunk) : us[chunk[k]].st = "failed"

\* attempt: the attempt of executeMulticallWithRetry under way or made last;
\* sent: the call arrays handed to staticCall so far; outcomes: how each of these
\* invocations ended, answered or threw; slept: the milliseconds the unit has asked
\* sleep for so far
NewUnit ==
  [st |-> "pending", attempt |-> 0, sent |-> <<>>, outcomes |-> <<>>, result |-> <<>>,
   error |-> "none", slept |-> 0]
NewUnits(n) == [k \in 1..n |-> NewUnit]

InFlight(s) == {k \in 1..Len(units[s]) : units[s][k].st \in {"calling", "sleeping"}}

----------------------------------------------------------------------------
(* Relationship Builder *)

\* domainMap.get(name): the Map was filled in array order, so the last record of a
\* name is the one kept; 0 stands for undefined
MapGet(ds, name) ==
  IF \E k \in 1..Len(ds) : ds[k].name = name
  THEN CHOOSE k \in 1..Len(ds) :
         ds[k].name = name /\ \A j \in (k + 1)..Len(ds) : ds[j].name # name
  ELSE 0

\* drops the last label instead of the first
ParentNameDropLast(parts) == JoinDot(SubSeq(parts, 1, Len(parts) - 1))
\* parts.slice(1).join('.')
ParentName(parts) == JoinDot(Tail(parts))

\* the duplicate guard left out
AlreadyListedNever(list, name) == FALSE
\* parent.subdomains.includes(domain.name)
AlreadyListed(list, name) == Includes(list, name)

\* the for-of loop of buildSubdomainRelations from record k on; ds is mutated in place
RECURSIVE BuildLoop(_, _)
BuildLoop(ds, k) ==
  IF k > Len(ds) THEN ds
  ELSE LET parts == SplitDot(ds[k].name)
           parent == MapGet(ds, ParentName(parts))
       IN IF Len(parts) > 1 /\ parent # 0
             /\ ~AlreadyListed(ds[parent].subdomains, ds[k].name)
          THEN BuildLoop([ds EXCEPT ![parent].subdomains = Append(@, ds[k].name)], k + 1)
          ELSE BuildLoop(ds, k + 1)

buildSubdomainRelations(ds) == BuildLoop(ds, 1)

----------------------------------------------------------------------------
(* Pipeline Orchestrator: indexAllDomains *)

NoResult == [has |-> FALSE, value |-> <<>>]
NoFailure == [kind |-> "none", from |-> "none", unit |-> 0, invocation |-> 0]

\* the locals of a run that has not started
PipeStart ==
  /\ pc = "Start"
  /\ stage = "none"
  /\ totalSupply = 0
  /\ batches = [s \in Stages |-> <<>>]
  /\ chunking = "done"
  /\ units = [s \in Stages |-> <<>>]
  /\ cmI = 0
  /\ cmState = "idle"
  /\ cmChunk = <<>>
  /\ settled = <<>>
  /\ cmResults = <<>>
  /\ processed = [s \in Stages |-> 0]
  /\ progress = <<>>
  /\ tokenIds = <<>>
  /\ domains = <<>>
  /\ returned = NoResult
  /\ failure = NoFailure

\* a configuration as the spec's run configuration requires it, every field >= 1
PipeInit ==
  /\ config \in [batchSize : 1..MaxBatchSize, concurrency : 1..MaxConcurrency,
                 retryAttempts : 1..MaxRetry]
  /\ config.concurrency + config.retryAttempts <= MaxLoad
  /\ registrySize \in 0..MaxTotal
  /\ PipeStart

\* a configuration as main builds it: parseInt of the environment, nothing checked
PipeInitAny ==
  /\ config \in [batchSize : 0..MaxBatchSize, concurrency : 0..MaxConcurrency,
                 retryAttempts : 0..MaxRetry]
  /\ config.concurrency + config.retryAttempts <= MaxLoad
  /\ registrySize \in 0..MaxTotal
  /\ PipeStart

\* the state of the pipeline variables in the specifications of the pure functions
PipeIdle ==
  /\ config = [batchSize |-> 1, concurrency |-> 1, retryAttempts |-> 1]
  /\ registrySize = 0
  /\ PipeStart

BatchIdle == cbArgs = [total |-> 0, batchSize |-> 1] /\ cbOut = [done |-> FALSE, value |-> <<>>]
BuildIdle == recs = <<>> /\ builds = 0
StatIdle == statIn = <<>> /\ statOut = [done |-> FALSE, value |-> <<>>]

Init == PipeInit /\ BatchIdle /\ BuildIdle /\ StatIdle

\* indexAllDomains is called: contract.totalSupply() is issued
StartRun ==
  /\ pc = "Start"
  /\ pc' = "FetchingIdentifiers"
  /\ UNCHANGED <<config, registrySize, stage, totalSupply, batches, chunking, units,
                 cmI, cmState, cmChunk, settled, cmResults, processed, progress,
                 tokenIds, domains, returned, failure, batchVars, buildVars, statVars>>

\* totalSupply() answers: batchGetTokenIds makes its batches and enters concurrentMap
TotalSupplyResolve ==
  /\ pc = "FetchingIdentifiers" /\ stage = "none"
  /\ CountLoopEnds(registrySize, config.batchSize)
  /\ totalSupply' = registrySize
  /\ stage' = "tokenIds"
  /\ LET bs == createBatches(registrySize, config.batchSize)
     IN /\ batches' = [batches EXCEPT !.tokenIds = bs]
        /\ units' = [units EXCEPT !.tokenIds = NewUnits(Len(bs))]
  /\ processed' = [processed EXCEPT !.tokenIds = 0]
  /\ cmI' = 0 /\ cmState' = "loop" /\ cmResults' = <<>>
  /\ UNCHANGED <<config, registrySize, pc, chunking, cmChunk, settled, progress,
                 tokenIds, domains, returned, failure, batchVars, buildVars, statVars>>

\* totalSupply() throws: nothing catches it, the run rejects
TotalSupplyReject ==
  /\ pc = "FetchingIdentifiers" /\ stage = "none"
  /\ pc' = "Failed"
  /\ failure' = GatewayError("totalSupply", 0, 1)
  /\ UNCHANGED <<config, registrySize, stage, totalSupply, batches, chunking, units,
                 cmI, cmState, cmChunk, settled, cmResults, processed, progress,
                 tokenIds, domains, returned, batchVars, buildVars, statVars>>

\* one iteration of the for loop of concurrentMap up to its await: every unit of the
\* chunk encodes its calls and issues its first aggregated call
DispatchWindow ==
  /\ pc \in {"FetchingIdentifiers", "FetchingDetails"}
  /\ cmState = "loop" /\ chunking = "done"
  /\ cmI < Len(batches[stage])
  /\ LET chunk == ChunkOf(cmI, config.concurrency, Len(batches[stage]))
     IN /\ chunk = <<>> \/ config.retryAttempts >= 1
        /\ cmChunk' = chunk
        /\ units' = [units EXCEPT ![stage] =
                       [k \in 1..Len(units[stage]) |->
                          IF Includes(chunk, k)
                          THEN [NewUnit EXCEPT
                                  !.st = "calling", !.attempt = 1,
                                  !.sent = <<RetryCalls(UnitCalls(stage, batches[stage][k]), 1)>>]
                          ELSE units[stage][k]]]
  /\ cmState' = "await"
  /\ settled' = <<>>
  /\ UNCHANGED <<config, registrySize, pc, stage, totalSupply, batches, chunking, cmI,
                 cmResults, processed, progress, tokenIds, domains, returned, failure,
                 batchVars, buildVars, statVars>>

\* a worker promise rejects with cause: the Promise.all awaited by concurrentMap
\* rejects with it, and so do concurrentMap, the stage and indexAllDomains
Propagate(newUnits, cause) ==
  IF cmState = "await" /\ PromiseAllRejected(cmChunk, newUnits[stage])
  THEN cmState' = "rejected" /\ pc' = "Failed" /\ failure' = cause
  ELSE UNCHANGED <<cmState, pc, failure>>

\* the aggregated call of unit k answers, with its bad-th result malformed when bad is
\* not 0. The worker decodes the results; when they decode it adds its batch to processed, notifies and fulfils, otherwise the decoder
\* throws outside the retry loop and the worker rejects
GatewayResolve(k, bad) ==
  /\ stage \in Stages
  /\ k \in 1..Len(units[stage])
  /\ units[stage][k].st = "calling"
  /\ bad <= Len(units[stage][k].sent[units[stage][k].attempt])
  /\ LET batch == batches[stage][k]
         sent == units[stage][k].sent
         results == Multicall(sent[Len(sent)], bad)
     IN IF WorkerDecodes(stage, batch, results)
        THEN /\ units' = [units EXCEPT ![stage][k] =
                            [@ EXCEPT !.st = "done",
                                      !.outcomes = Append(@, "answered"),
                                      !.result = WorkerValue(stage, batch, results)]]
             /\ processed' = [processed EXCEPT ![stage] = @ + BatchCount(stage, batch)]
             /\ progress' = Append(progress,
                                   Notification(stage, processed'[stage], StageTotal(stage)))
             /\ settled' = Append(settled, k)
             /\ UNCHANGED <<cmState, pc, failure>>
        ELSE /\ LET nu == [units EXCEPT ![stage][k] =
                                DecodeThrows([@ EXCEPT !.outcomes = Append(@, "answered")],
                                             RetryExhausted(@.attempt))]
                IN units' = nu /\ Propagate(nu, DecodeError(stage, k))
             /\ UNCHANGED <<processed, progress, settled>>
  /\ UNCHANGED <<config, registrySize, stage, totalSupply, batches, chunking, cmI,
                 cmChunk, cmResults, tokenIds, domains, returned, batchVars, buildVars, statVars>>

\* the aggregated call of unit k throws: executeMulticallWithRetry rethrows the error
\* on the last attempt, and sleeps before the next attempt otherwise
GatewayReject(k) ==
  /\ stage \in Stages
  /\ k \in 1..Len(units[stage])
  /\ units[stage][k].st = "calling"
  /\ IF RetryExhausted(units[stage][k].attempt)
     THEN LET nu == [units EXCEPT ![stage][k] =
                          [@ EXCEPT !.st = "failed", !.error = "RpcError",
                                    !.outcomes = Append(@, "threw")]]
          IN units' = nu /\ Propagate(nu, Rethrown(GatewayError(stage, k, nu[stage][k].attempt)))
     ELSE /\ units' = [units EXCEPT ![stage][k] =
                         [@ EXCEPT !.st = "sleeping",
                                   !.outcomes = Append(@, "threw"),
                                   !.slept = @ + Backoff(units[stage][k].attempt)]]
          /\ UNCHANGED <<cmState, pc, failure>>
  /\ UNCHANGED <<config, registrySize, stage, totalSupply, batches, chunking, cmI,
                 cmChunk, settled, cmResults, processed, progress, tokenIds, domains,
                 returned, batchVars, buildVars, statVars>>

\* the backoff timer of unit k fires: the loop of executeMulticallWithRetry issues the
\* same calls again
BackoffElapsed(k) ==
  /\ stage \in Stages
  /\ k \in 1..Len(units[stage])
  /\ units[stage][k].st = "sleeping"
  /\ units' = [units EXCEPT ![stage][k] =
                 [@ EXCEPT !.st = "calling", !.attempt = @ + 1,
                           !.sent = Append(@, RetryCalls(UnitCalls(stage, batches[stage][k]),
                                                         units[stage][k].attempt + 1))]]
  /\ UNCHANGED <<config, registrySize, pc, stage, totalSupply, batches, chunking, cmI,
                 cmState, cmChunk, settled, cmResults, processed, progress, tokenIds,
                 domains, returned, failure, batchVars, buildVars, statVars>>

\* Promise.all fulfils: results.push(...chunkResults) and i += concurrency
WindowComplete ==
  /\ cmState = "await"
  /\ PromiseAllFulfilled(cmChunk, units[stage])
  /\ cmResults' = cmResults \o PromiseAllValues(cmChunk, settled, units[stage])
  /\ cmI' = NextWindow(cmI, config.concurrency)
  /\ cmState' = "loop"
  /\ cmChunk' = <<>>
  /\ UNCHANGED <<config, registrySize, pc, stage, totalSupply, batches, chunking, units,
                 settled, processed, progress, tokenIds, domains, returned, failure,
                 batchVars, buildVars, statVars>>

\* concurrentMap returns to batchGetTokenIds, which flattens and returns;
\* batchGetDomainDetails makes its batches and enters concurrentMap
TokenIdsReturn ==
  /\ pc = "FetchingIdentifiers" /\ stage = "tokenIds"
  /\ cmState = "loop"
  /\ cmI >= Len(batches.tokenIds)
  /\ pc' = "FetchingDetails"
  /\ stage' = "details"
  /\ LET ids == Flatten(cmResults)
     IN /\ tokenIds' = ids
        /\ IF ChunkLoopEnds(ids, detailBatchSize)
           THEN LET bs == createBatchesFromArray(ids, detailBatchSize)
                IN /\ batches' = [batches EXCEPT !.details = bs]
                   /\ units' = [tokenIds |-> <<>>, details |-> NewUnits(Len(bs))]
                   /\ chunking' = "done"
           ELSE /\ batches' = [batches EXCEPT !.details = <<>>]
                /\ units' = [tokenIds |-> <<>>, details |-> <<>>]
                /\ chunking' = "looping"
  /\ processed' = [processed EXCEPT !.details = 0]
  /\ cmI' = 0 /\ cmState' = "loop" /\ cmResults' = <<>> /\ settled' = <<>>
  /\ UNCHANGED <<config, registrySize, totalSupply, cmChunk, progress, domains,
                 returned, failure, batchVars, buildVars, statVars>>

\* createBatchesFromArray with batchSize 0: i stays 0 and every iteration pushes
\* items.slice(0, 0); the loop is followed for MaxSpin iterations
CreateBatchesFromArraySpin ==
  /\ chunking = "looping" /\ stage = "details"
  /\ Len(batches.details) < MaxSpin
  /\ batches' = [batches EXCEPT !.details = Append(@, Slice(tokenIds, 0, 0))]
  /\ UNCHANGED <<config, registrySize, pc, stage, totalSupply, chunking, units, cmI,
                 cmState, cmChunk, settled, cmResults, processed, progress, tokenIds,
                 domains, returned, failure, batchVars, buildVars, statVars>>

\* concurrentMap returns to batchGetDomainDetails, which flattens and returns
DetailsReturn ==
  /\ pc = "FetchingDetails" /\ stage = "details"
  /\ cmState = "loop" /\ chunking = "done"
  /\ cmI >= Len(batches.details)
  /\ domains' = Flatten(cmResults)
  /\ pc' = "BuildingRelationships"
  /\ cmState' = "idle" /\ cmResults' = <<>> /\ settled' = <<>>
  /\ units' = [units EXCEPT !.details = <<>>]
  /\ UNCHANGED <<config, registrySize, stage, totalSupply, batches, chunking, cmI,
                 cmChunk, processed, progress, tokenIds, returned,
                 failure, batchVars, buildVars, statVars>>

\* buildSubdomainRelations links the records in place, the observer is told
\* 'complete' and indexAllDomains resolves with the array
BuildRelations ==
  /\ pc = "BuildingRelationships"
  /\ LET linked == buildSubdomainRelations(domains)
     IN /\ domains' = linked
        /\ returned' = [has |-> TRUE, value |-> linked]
  /\ progress' = Append(progress, [stage |-> "complete", current |-> Len(domains),
                                   total |-> Len(domains), percentage |-> 100])
  /\ pc' = "Complete"
  /\ UNCHANGED <<config, registrySize, stage, totalSupply, batches, chunking, units, cmI,
                 cmState, cmChunk, settled, cmResults, processed, tokenIds, failure,
                 batchVars, buildVars, statVars>>

\* main catches the rejection and calls process.exit(1): units still in flight die
MainExit ==
  /\ pc = "Failed"
  /\ stage \in Stages
  /\ InFlight(stage) # {}
  /\ units' = [units EXCEPT ![stage] =
                 [k \in 1..Len(units[stage]) |->
                    IF k \in InFlight(stage)
                    THEN [units[stage][k] EXCEPT !.st = "killed"]
                    ELSE units[stage][k]]]
  /\ UNCHANGED <<config, registrySize, pc, stage, totalSupply, batches, chunking, cmI,
                 cmState, cmChunk, settled, cmResults, processed, progress, tokenIds,
                 domains, returned, failure, batchVars, buildVars, statVars>>

UnitIds == 1..MaxTotal

Next ==
  \/ StartRun
  \/ TotalSupplyResolve
  \/ TotalSupplyReject
  \/ DispatchWindow
  \/ \E k \in UnitIds, bad \in 0..MaxBatchSize : GatewayResolve(k, bad)
  \/ \E k \in UnitIds : GatewayReject(k)
  \/ \E k \in UnitIds : BackoffElapsed(k)
  \/ WindowComplete
  \/ TokenIdsReturn
  \/ CreateBatchesFromArraySpin
  \/ DetailsReturn
  \/ BuildRelations
  \/ MainExit

Spec == Init /\ [][Next]_vars

----------------------------------------------------------------------------
(* The pipeline under a configuration with a field below 1 *)

\* totalSupply() answers a positive total and batchSize is 0: batchGetTokenIds calls
\* createBatches, whose loop never ends
TotalSupplyLoops ==
  /\ pc = "FetchingIdentifiers" /\ stage = "none"
  /\ ~CountLoopEnds(registrySize, config.batchSize)
  /\ totalSupply' = registrySize
  /\ stage' = "tokenIds"
  /\ chunking' = "looping"
  /\ UNCHANGED <<config, registrySize, pc, batches, units, cmI, cmState, cmChunk, settled,
                 cmResults, processed, progress, tokenIds, domains, returned, failure,
                 batchVars, buildVars, statVars>>

\* createBatches with batchSize 0: i stays 0 and every iteration pushes the range
\* [0, min(0, total)); the loop is followed for MaxSpin iterations
CreateBatchesSpin ==
  /\ chunking = "looping" /\ stage = "tokenIds"
  /\ Len(batches.tokenIds) < MaxSpin
  /\ batches' = [batches EXCEPT !.tokenIds =
                   Append(@, [start |-> 0,
                              end |-> BatchEnd(0, config.batchSize, totalSupply)])]
  /\ UNCHANGED <<config, registrySize, pc, stage, totalSupply, chunking, units, cmI,
                 cmState, cmChunk, settled, cmResults, processed, progress, tokenIds,
                 domains, returned, failure, batchVars, buildVars, statVars>>

\* one iteration of the for loop of concurrentMap with retryAttempts below 1: the loop
\* of executeMulticallWithRetry does not run, so every worker of the chunk throws
\* 'Multicall failed' without a call to the gateway, and Promise.all rejects with the
\* error of the first of them
DispatchWindowNoAttempt ==
  /\ pc \in {"FetchingIdentifiers", "FetchingDetails"}
  /\ cmState = "loop" /\ chunking = "done"
  /\ cmI < Len(batches[stage])
  /\ config.retryAttempts < 1
  /\ LET chunk == ChunkOf(cmI, config.concurrency, Len(batches[stage]))
     IN /\ chunk # <<>>
        /\ cmChunk' = chunk
        /\ units' = [units EXCEPT ![stage] =
                       [k \in 1..Len(units[stage]) |->
                          IF Includes(chunk, k)
                          THEN [NewUnit EXCEPT !.st = "failed", !.error = "Error"]
                          ELSE units[stage][k]]]
        /\ failure' = MulticallFailed(stage, chunk[1])
  /\ cmState' = "rejected"
  /\ pc' = "Failed"
  /\ settled' = <<>>
  /\ UNCHANGED <<config, registrySize, stage, totalSupply, batches, chunking, cmI,
                 cmResults, processed, progress, tokenIds, domains, returned,
                 batchVars, buildVars, statVars>>

InitConfig == PipeInitAny /\ BatchIdle /\ BuildIdle /\ StatIdle

NextConfig ==
  \/ Next
  \/ TotalSupplyLoops
  \/ CreateBatchesSpin
  \/ DispatchWindowNoAttempt

SpecConfig == InitConfig /\ [][NextConfig]_vars

----------------------------------------------------------------------------
(* The pipeline over a small registry, with more attempts allowed *)

\* SpecRetry: largest retryAttempts
MaxAttempts == 4
\* SpecRetry: tokens in the registry, and the largest batchSize and concurrency
MaxSmall == 2

RetryInit ==
  /\ config \in [batchSize : 1..MaxSmall, concurrency : 1..MaxSmall,
                 retryAttempts : 1..MaxAttempts]
  /\ registrySize \in 0..MaxSmall
  /\ PipeStart

InitRetry == RetryInit /\ BatchIdle /\ BuildIdle /\ StatIdle

SpecRetry == InitRetry /\ [][Next]_vars

----------------------------------------------------------------------------
(* The pipeline with its scheduling: the event loop runs every continuation  *)
(* that is ready, a timer set by sleep fires, and the gateway answers every  *)
(* aggregated call, so a run does not stop while one of its steps can be     *)
(* taken.  The registry and the configuration are the small ones of          *)
(* SpecRetry.                                                                *)

InitLive == RetryInit /\ BatchIdle /\ BuildIdle /\ StatIdle

Scheduling == WF_vars(Next)

SpecLive == InitLive /\ [][Next]_vars /\ Scheduling

----------------------------------------------------------------------------
(* createBatches on drawn arguments *)

BatchInit ==
  /\ cbArgs \in [total : 0..MaxCount, batchSize : 1..MaxChunk]
  /\ cbOut = [done |-> FALSE, value |-> <<>>]

CallCreateBatches ==
  /\ ~cbOut.done
  /\ cbOut' = [done |-> TRUE, value |-> createBatches(cbArgs.total, cbArgs.batchSize)]
  /\ UNCHANGED <<cbArgs, pipeVars, buildVars, statVars>>

InitBatch == PipeIdle /\ BatchInit /\ BuildIdle /\ StatIdle

SpecBatch == InitBatch /\ [][CallCreateBatches]_vars

----------------------------------------------------------------------------
(* buildSubdomainRelations on drawn record arrays *)

NameA == <<"a">>
NameB == <<"b">>
NameC == <<"c">>
NameAB == <<"a", ".", "b">>
NameBC == <<"b", ".", "c">>
NameABC == <<"a", ".", "b", ".", "c">>
NameAC == <<"a", ".", "c">>
NameXY == <<"x", ".", "y">>
NameDot == <<".">>
NameEmpty == <<>>

BuildNames == {NameA, NameB, NameC, NameAB, NameBC, NameAC, NameABC, NameXY, NameDot, NameEmpty}

\* a DomainData as multicallGetDetails pushes it: subdomains: []
FreshRecord(k, name) ==
  [id |-> IdString(k), name |-> name, did |-> "", note |-> "", allowSubdomain |-> FALSE,
   owner |-> <<>>, subdomains |-> <<>>]

BuildInit ==
  /\ \E n \in 0..MaxRecs : \E names \in [1..n -> BuildNames] :
        recs = [k \in 1..n |-> FreshRecord(k, names[k])]
  /\ builds = 0

\* SpecBuild: how many times the builder is run on the same array
MaxBuilds == 2

CallBuild ==
  /\ builds < MaxBuilds
  /\ recs' = buildSubdomainRelations(recs)
  /\ builds' = builds + 1
  /\ UNCHANGED <<pipeVars, batchVars, statVars>>

InitBuild == PipeIdle /\ BatchIdle /\ BuildInit /\ StatIdle

SpecBuild == InitBuild /\ [][CallBuild]_vars

----------------------------------------------------------------------------
(* getStatistics on drawn record arrays *)

\* (d) => !d.name.includes('.')
IsTopLevel(d) == ~HasDot(d.name)
\* (d) => d.name.includes('.')
IsSubdomain(d) == HasDot(d.name)
\* every record counted, whatever its did
HasDidAlways(d) == TRUE
\* (d) => d.did && d.did !== ''
HasDid(d) == d.did # ""
\* (d) => d.allowSubdomain
AllowsSubdomain(d) == d.allowSubdomain

\* domains.filter(...).length for each figure
getStatistics(ds) ==
  [total |-> Len(ds),
   topLevel |-> Len(SelectSeq(ds, IsTopLevel)),
   subdomains |-> Len(SelectSeq(ds, IsSubdomain)),
   withDID |-> Len(SelectSeq(ds, HasDid)),
   allowingSubdomains |-> Len(SelectSeq(ds, AllowsSubdomain))]

\* SpecStats: longest record array
MaxStatRecs == 4

StatNames == {NameA, NameAB, NameEmpty}
StatDids == {"", "did"}

StatRecord(k, name, did, allow) ==
  [id |-> IdString(k), name |-> name, did |-> did, note |-> "", allowSubdomain |-> allow,
   owner |-> <<>>, subdomains |-> <<>>]

StatInit ==
  /\ \E n \in 0..MaxStatRecs : \E f \in [1..n -> StatNames \X StatDids \X BOOLEAN] :
        statIn = [k \in 1..n |-> StatRecord(k, f[k][1], f[k][2], f[k][3])]
  /\ statOut = [done |-> FALSE, value |-> <<>>]

\* the filters build new arrays: domains itself is not written
CallGetStatistics ==
  /\ ~statOut.done
  /\ statOut' = [done |-> TRUE, value |-> getStatistics(statIn)]
  /\ statIn' = statIn
  /\ UNCHANGED <<pipeVars, batchVars, buildVars>>

InitStats == PipeIdle /\ BatchIdle /\ BuildIdle /\ StatInit

SpecStats == InitStats /\ [][CallGetStatistics]_vars

----------------------------------------------------------------------------
(* Claims *)

\* C1: createBatches(total, chunkSize) yields the ranges [i, min(i+chunkSize, total))
\* for i = 0, chunkSize, 2*chunkSize, ...: non-empty, contiguous, non-overlapping,
\* covering [0, total) exactly once; every range but the last has length chunkSize and
\* the last has length total mod chunkSize unless that is 0 (then chunkSize);
\* total = 0 yields no range.
C1_Chunking ==
  cbOut.done =>
    LET R == cbOut.value
        total == cbArgs.total
        size == cbArgs.batchSize
        n == Len(R)
    IN /\ (total = 0) <=> (n = 0)
       /\ \A k \in 1..n :
            /\ R[k].start = (k - 1) * size
            /\ R[k].end = (IF k * size < total THEN k * size ELSE total)
            /\ R[k].start < R[k].end
       /\ n > 0 => R[1].start = 0 /\ R[n].end = total
       /\ \A k \in 1..(n - 1) :
            R[k].end = R[k + 1].start /\ R[k].end - R[k].start = size
       /\ \A j \in 0..(total - 1) :
            Cardinality({k \in 1..n : R[k].start <= j /\ j < R[k].end}) = 1
       /\ \A k \in 1..n : R[k].start >= 0 /\ R[k].end <= total
       /\ n > 0 => R[n].end - R[n].start = (IF total % size = 0 THEN size ELSE total % size)

\* C1 witness: several ranges, the last one shorter than the others
C1_Witness ==
  /\ cbOut.done
  /\ Len(cbOut.value) >= 3
  /\ cbArgs.total % cbArgs.batchSize # 0
  /\ cbOut.value[Len(cbOut.value)].end - cbOut.value[Len(cbOut.value)].start
       < cbArgs.batchSize

NamesOf(ds) == [k \in 1..Len(ds) |-> ds[k].name]
UniqueNames(ds) == \A j, k \in 1..Len(ds) : ds[j].name = ds[k].name => j = k
NameSet(ds) == {ds[k].name : k \in 1..Len(ds)}
RecordNamed(ds, name) == ds[CHOOSE k \in 1..Len(ds) : ds[k].name = name]

\* a name with its first label removed: what follows its first separator
AfterFirstDot(name) ==
  LET k == CHOOSE k \in 1..Len(name) : name[k] = Dot /\ \A j \in 1..(k - 1) : name[j] # Dot
  IN SubSeq(name, k + 1, Len(name))

IsChildOf(child, parent) == HasDot(child) /\ AfterFirstDot(child) = parent

\* the names of the children of record p, in input order
ChildrenOf(ds, p) == SelectSeq(NamesOf(ds), LAMBDA name : IsChildOf(name, ds[p].name))

\* the part of C9 that is about every record set with unique names
C9_General ==
  (builds = 1 /\ UniqueNames(recs)) =>
    /\ \A p \in 1..Len(recs) : recs[p].subdomains = ChildrenOf(recs, p)
    /\ \A c \in 1..Len(recs) :
         (HasDot(recs[c].name) /\ AfterFirstDot(recs[c].name) \notin NameSet(recs))
           => \A p \in 1..Len(recs) : ~Includes(recs[p].subdomains, recs[c].name)
    /\ \A p \in 1..Len(recs) : \A k \in 1..Len(recs[p].subdomains) :
         recs[p].subdomains[k] \in NameSet(recs)

\* C9, as stated: the general part, and for {a, a.b, a.b.c, x.y} the lists
\* a -> [a.b], a.b -> [a.b.c], a.b.c -> [], x.y unlinked.
C9_Original ==
  /\ C9_General
  /\ (builds = 1 /\ Len(recs) = 4 /\ NameSet(recs) = {NameA, NameAB, NameABC, NameXY}) =>
       /\ RecordNamed(recs, NameA).subdomains = <<NameAB>>
       /\ RecordNamed(recs, NameAB).subdomains = <<NameABC>>
       /\ RecordNamed(recs, NameABC).subdomains = <<>>
       /\ \A p \in 1..4 : ~Includes(recs[p].subdomains, NameXY)

\* C9, amended: after build on records with unique names and empty lists, the list of
\* every record P is the input-order subsequence of the names whose remainder after
\* the first label equals P.name; a record with an absent parent is in no list; every
\* listed name is a record. For {a, a.b, a.b.c, x.y} every list stays empty (the
\* parents b, b.c and y are absent); for {c, b.c, a.b.c, x.y}: c -> [b.c],
\* b.c -> [a.b.c], a.b.c -> [], x.y unlinked.
C9_Relations ==
  /\ C9_General
  /\ (builds = 1 /\ Len(recs) = 4 /\ NameSet(recs) = {NameA, NameAB, NameABC, NameXY}) =>
       \A p \in 1..4 : recs[p].subdomains = <<>>
  /\ (builds = 1 /\ Len(recs) = 4 /\ NameSet(recs) = {NameC, NameBC, NameABC, NameXY}) =>
       /\ RecordNamed(recs, NameC).subdomains = <<NameBC>>
       /\ RecordNamed(recs, NameBC).subdomains = <<NameABC>>
       /\ RecordNamed(recs, NameABC).subdomains = <<>>
       /\ RecordNamed(recs, NameXY).subdomains = <<>>
       /\ \A p \in 1..4 : ~Includes(recs[p].subdomains, NameXY)

\* C9 witness: a parent was given two children in retrieval order, which is not the
\* sorted order, next to a record whose parent is absent
C9_Witness ==
  /\ builds = 1
  /\ UniqueNames(recs)
  /\ \E p \in 1..Len(recs) : recs[p].subdomains = <<NameBC, NameAC>>
  /\ NameXY \in NameSet(recs)

\* C10: a second build on the linked records changes no subdomains list.
C10_Idempotent == [][builds >= 1 => recs' = recs]_vars

\* C10 witness: the second build ran on records that the first one had linked
C10_Witness ==
  /\ builds = 2
  /\ \E p \in 1..Len(recs) : Len(recs[p].subdomains) >= 2

----------------------------------------------------------------------------
(* Claims about the pipeline *)

\* concurrentMap is about to return: its loop condition is false
MapReturning ==
  /\ pc \in {"FetchingIdentifiers", "FetchingDetails"}
  /\ stage \in Stages
  /\ cmState = "loop" /\ chunking = "done"
  /\ cmI >= Len(batches[stage])

\* what the worker of a stage returns for a batch when its aggregated call answers
WorkerResultFor(s, batch) == WorkerValue(s, batch, Multicall(UnitCalls(s, batch), 0))

OrderedResults ==
  /\ Len(cmResults) = Len(batches[stage])
  /\ \A k \in 1..Len(batches[stage]) :
       cmResults[k] = WorkerResultFor(stage, batches[stage][k])

\* C2: when concurrentMap returns, its result has the length of its input and its
\* i-th element is the worker's result for the i-th unit, for every concurrency in
\* 1..MaxConcurrency and every order in which the units of a window fulfil.
C2_OrderedResults == MapReturning => OrderedResults

\* C2 witness: concurrentMap returns after a window of three units, dispatched with
\* concurrency 3, fulfilled in an order that is not the input order
C2_Witness ==
  /\ MapReturning
  /\ config.concurrency = 3
  /\ Len(settled) = 3
  /\ settled[1] > settled[2]
  /\ Len(cmResults) >= 3

\* C3: a unit whose aggregated call throws is given up only on attempt retryAttempts,
\* and a concurrentMap in which a unit succeeded on attempt retryAttempts returns the
\* full, input-ordered result of a run without failures.
C3_RetryRecovery ==
  /\ \A s \in Stages : \A k \in 1..Len(units[s]) :
       /\ units[s][k].attempt <= config.retryAttempts
       /\ units[s][k].error = "RpcError" => units[s][k].attempt = config.retryAttempts
       /\ (units[s][k].st = "done" /\ units[s][k].attempt = config.retryAttempts)
            => units[s][k].result = WorkerResultFor(s, batches[s][k])
  /\ (MapReturning /\ \E k \in 1..Len(units[stage]) :
                         units[stage][k].attempt = config.retryAttempts)
       => OrderedResults

\* C3 witness: concurrentMap of the detail stage returns, a unit of a later window
\* having succeeded on its last attempt, after at least one failed attempt
C3_Witness ==
  /\ MapReturning
  /\ stage = "details"
  /\ config.retryAttempts >= 2
  /\ \E k \in 1..Len(units[stage]) :
       /\ k > config.concurrency
       /\ units[stage][k].st = "done"
       /\ units[stage][k].attempt = config.retryAttempts

\* C4: once the aggregated call of a batch has thrown on every attempt, the run is
\* Failed and concurrentMap rejected; a Failed run has resolved with nothing, and the
\* stage that failed has handed nothing over; only a Complete run has resolved.
C4_NoPartialOutput ==
  /\ \A s \in Stages : \A k \in 1..Len(units[s]) :
       units[s][k].error = "RpcError" =>
         /\ pc = "Failed" /\ cmState = "rejected" /\ failure # NoFailure
         /\ returned = NoResult
         /\ s = "tokenIds" => tokenIds = <<>>
         /\ domains = <<>>
  /\ pc = "Failed" => returned = NoResult
  /\ returned.has => pc = "Complete"

\* C4 witness: the run failed in the detail stage by a unit that used up its attempts,
\* after an earlier window and another unit of the same window had succeeded
C4_Witness ==
  /\ pc = "Failed"
  /\ stage = "details"
  /\ cmResults # <<>>
  /\ \E k, j \in 1..Len(cmChunk) :
       /\ units[stage][cmChunk[k]].error = "RpcError"
       /\ units[stage][cmChunk[k]].attempt = config.retryAttempts
       /\ units[stage][cmChunk[j]].st = "done"

AllDone(s) ==
  /\ Len(units[s]) = Len(batches[s])
  /\ \A k \in 1..Len(units[s]) : units[s][k].st = "done"

\* unit k of stage s issues its first aggregated call in this step
Dispatched(s, k) ==
  /\ k \in 1..Len(units[s]) /\ units[s][k].st = "pending"
  /\ k \in 1..Len(units'[s]) /\ units'[s][k].st = "calling"

\* the transitions of the pipeline state the claim allows
C5_Step ==
  \/ pc' = pc
  \/ pc = "Start" /\ pc' = "FetchingIdentifiers"
  \/ pc = "FetchingIdentifiers" /\ pc' = "FetchingDetails"
  \/ pc = "FetchingDetails" /\ pc' = "BuildingRelationships"
  \/ pc = "BuildingRelationships" /\ pc' = "Complete"
  \/ pc \notin {"Complete", "Failed"} /\ pc' = "Failed"

\* what a step that leaves a fetch stage, or dispatches a unit, finds
C5_Gates ==
  /\ (pc = "FetchingIdentifiers" /\ pc' = "FetchingDetails") =>
       stage = "tokenIds" /\ AllDone("tokenIds")
  /\ (pc = "FetchingDetails" /\ pc' = "BuildingRelationships") =>
       stage = "details" /\ AllDone("details")
  /\ \A k \in UnitIds :
       /\ Dispatched("tokenIds", k) => pc = "FetchingIdentifiers" /\ pc' = pc
       /\ Dispatched("details", k) => pc = "FetchingDetails" /\ pc' = pc

\* C5: the pipeline state only moves Start -> FetchingIdentifiers -> FetchingDetails
\* -> BuildingRelationships -> Complete, or from a non-terminal state to Failed;
\* Complete and Failed are never left; detail units are dispatched only in
\* FetchingDetails, which is entered only when every identifier batch is done, and
\* BuildingRelationships is entered only when every detail batch is done.
C5_StateOrder == [][C5_Step /\ C5_Gates]_vars

\* C5 witness: a run is Complete after several batches in both fetch stages
C5_Witness ==
  /\ pc = "Complete"
  /\ Len(batches.tokenIds) >= 2
  /\ Len(batches.details) >= 2

\* C6: on a Complete run the identifiers of stage 1 are the registry's, one per
\* index in index order, and the records returned have the same length, the i-th
\* carrying the i-th identifier as its id.
C6_Order ==
  pc = "Complete" =>
    /\ Len(tokenIds) = registrySize
    /\ \A i \in 1..Len(tokenIds) : tokenIds[i] = IdString(RegistryId(i - 1))
    /\ returned.has
    /\ Len(returned.value) = Len(tokenIds)
    /\ \A i \in 1..Len(returned.value) : returned.value[i].id = tokenIds[i]

\* C6 witness: a Complete run over three tokens with batchSize 2, in which the second
\* identifier batch (one token) fulfilled before the first, and the detail stage ran
\* several batches at once
C6_Witness ==
  /\ pc = "Complete"
  /\ registrySize = 3 /\ config.batchSize = 2 /\ config.concurrency >= 2
  /\ progress[1] = Notification("tokenIds", 1, 3)
  /\ Len(returned.value) = 3

StageNotes(s) == SelectSeq(progress, LAMBDA n : n.stage = s)
StageSucceeded(s) ==
  IF s = "tokenIds" THEN stage = "details"
  ELSE pc \in {"BuildingRelationships", "Complete"}

\* C7: in each fetch stage the processed count notified is strictly increasing, never
\* above the stage's total (nor is the counter itself), the total is the same in every
\* notification, and the last notification of a stage that succeeded carries the total.
C7_Progress ==
  \A s \in Stages :
    LET N == StageNotes(s)
    IN /\ processed[s] <= StageTotal(s)
       /\ \A k \in 1..Len(N) :
            /\ N[k].total = StageTotal(s)
            /\ N[k].current <= N[k].total
            /\ N[k].current > 0
       /\ \A k \in 1..(Len(N) - 1) : N[k].current < N[k + 1].current
       /\ (StageSucceeded(s) /\ StageTotal(s) > 0) =>
            Len(N) > 0 /\ N[Len(N)].current = StageTotal(s)
       /\ (StageSucceeded(s) /\ StageTotal(s) = 0) => N = <<>>

\* C7 witness: both stages succeeded with several notifications each, the last
\* identifier batch being shorter than batchSize
C7_Witness ==
  /\ pc = "Complete"
  /\ Len(StageNotes("tokenIds")) >= 2
  /\ Len(StageNotes("details")) >= 2
  /\ registrySize % config.batchSize # 0

InFlightCount == Cardinality(InFlight("tokenIds")) + Cardinality(InFlight("details"))

\* C8: the units in flight (aggregated call outstanding, or asleep before a retry)
\* are never more than config.concurrency.
C8_Bounded == InFlightCount <= config.concurrency

\* C8 witness: concurrency 2 with more batches than that, both slots taken, one of
\* the two units asleep in its backoff
C8_Witness ==
  /\ stage \in Stages
  /\ config.concurrency = 2
  /\ Len(batches[stage]) > 2
  /\ InFlightCount = 2
  /\ \E k \in InFlight(stage) : units[stage][k].st = "sleeping"

----------------------------------------------------------------------------
(* Claims about the configuration *)

ConfigInvalid ==
  config.batchSize < 1 \/ config.concurrency < 1 \/ config.retryAttempts < 1

\* C11: a run whose configuration has batchSize, concurrency or retryAttempts below 1
\* returns no result set and never completes, and when it fails in a stage it fails
\* with a ConfigError.
C11_ConfigError ==
  ConfigInvalid =>
    /\ pc # "Complete"
    /\ ~returned.has
    /\ (pc = "Failed" /\ failure.from \in Stages) => failure.kind = "ConfigError"

----------------------------------------------------------------------------
(* Claims about the aggregated calls *)

\* the call arrays unit k of stage s has handed to the gateway so far
SentBy(s, k) == units[s][k].sent

\* C12: every aggregated call issued carries at least 1 and at most batchSize calls:
\* batch.end - batch.start of them in the identifier stage, two for each identifier
\* of the batch in the detail stage; every identifier batch has 1..batchSize indices
\* and every detail batch at most floor(batchSize / 2) identifiers.
C12_PayloadBudget ==
  /\ \A s \in Stages : \A k \in 1..Len(units[s]) : \A j \in 1..Len(SentBy(s, k)) :
       /\ Len(SentBy(s, k)[j]) >= 1
       /\ Len(SentBy(s, k)[j]) <= config.batchSize
       /\ s = "tokenIds" =>
            Len(SentBy(s, k)[j]) = batches[s][k].end - batches[s][k].start
       /\ s = "details" => Len(SentBy(s, k)[j]) = 2 * Len(batches[s][k])
  /\ \A k \in 1..Len(batches.tokenIds) :
       /\ batches.tokenIds[k].end - batches.tokenIds[k].start >= 1
       /\ batches.tokenIds[k].end - batches.tokenIds[k].start <= config.batchSize
  /\ \A k \in 1..Len(batches.details) :
       /\ Len(batches.details[k]) <= config.batchSize \div 2
       /\ 2 * Len(batches.details[k]) <= config.batchSize

\* C12 witness: with the odd batchSize 3 a detail unit on a retry has issued two calls
\* of 2 payloads each, after identifier batches of 3 and of 1 index
C12_Witness ==
  /\ stage = "details"
  /\ config.batchSize = 3
  /\ registrySize = 4
  /\ \E k \in 1..Len(units.details) :
       /\ Len(SentBy("details", k)) = 2
       /\ Len(SentBy("details", k)[2]) = 2

----------------------------------------------------------------------------
(* Claims about getStatistics *)

Dotted(name) == \E i \in DOMAIN name : name[i] = "."
CountDotted(ds) == Cardinality({k \in 1..Len(ds) : Dotted(ds[k].name)})
CountWithDid(ds) == Cardinality({k \in 1..Len(ds) : ds[k].did # ""})
CountAllowing(ds) == Cardinality({k \in 1..Len(ds) : ds[k].allowSubdomain})

\* C13: getStatistics returns total = number of records, topLevel = number of names
\* without '.', subdomains = number with '.', withDID = number with a non-empty did,
\* allowingSubdomains = number allowing subdomains, so topLevel + subdomains = total;
\* the call leaves its input as it was; 4 records with 2 dotted names, 3 non-empty
\* dids and 1 allowing subdomains give {4, 2, 2, 3, 1}.
C13_Statistics ==
  [][statOut'.done =>
       LET r == statOut'.value
       IN /\ statIn' = statIn
          /\ r.total = Len(statIn)
          /\ r.subdomains = CountDotted(statIn)
          /\ r.topLevel = Len(statIn) - CountDotted(statIn)
          /\ r.withDID = CountWithDid(statIn)
          /\ r.allowingSubdomains = CountAllowing(statIn)
          /\ r.topLevel + r.subdomains = r.total
          /\ (Len(statIn) = 4 /\ CountDotted(statIn) = 2 /\ CountWithDid(statIn) = 3
                /\ CountAllowing(statIn) = 1) =>
               r = [total |-> 4, topLevel |-> 2, subdomains |-> 2, withDID |-> 3,
                    allowingSubdomains |-> 1]]_vars

\* C13 witness: getStatistics has returned for 4 records with 2 dotted names, 3
\* non-empty dids and 1 allowing subdomains
C13_Witness ==
  /\ statOut.done
  /\ Len(statIn) = 4
  /\ CountDotted(statIn) = 2
  /\ CountWithDid(statIn) = 3
  /\ CountAllowing(statIn) = 1
  /\ statOut.value.withDID = 3

----------------------------------------------------------------------------
(* Claims about the Retrying Caller *)

\* executeMulticallWithRetry has returned to the worker of unit u
CallerReturned(u) ==
  Len(u.outcomes) > 0 /\ u.outcomes[Len(u.outcomes)] = "answered"
\* executeMulticallWithRetry has thrown to the worker of unit u
CallerFailed(u) == u.error = "RpcError"

\* what one call of executeMulticallWithRetry for unit u of stage s has done so far
CallerWithinContract(s, u, batch) ==
  /\ Len(u.sent) <= config.retryAttempts
  /\ Len(u.sent) = u.attempt
  /\ u.st # "pending" => Len(u.sent) >= 1
  /\ \A j \in 1..Len(u.sent) : u.sent[j] = u.sent[1] /\ u.sent[j] = UnitCalls(s, batch)
  /\ \A j \in 1..(Len(u.outcomes) - 1) : u.outcomes[j] = "threw"
  /\ CallerReturned(u) => Len(u.outcomes) = Len(u.sent)
  /\ u.st = "done" =>
       /\ CallerReturned(u)
       /\ u.result = WorkerValue(s, batch, Multicall(u.sent[Len(u.sent)], 0))
  /\ CallerFailed(u) <=>
       /\ Len(u.outcomes) = config.retryAttempts
       /\ \A j \in 1..Len(u.outcomes) : u.outcomes[j] = "threw"

\* C14: one call of executeMulticallWithRetry invokes the gateway between 1 and
\* retryAttempts times, each time with the complete call array of the batch; every
\* invocation before the last one threw; after an invocation that answered no
\* further one is made and the worker's value is built from that answer; the call
\* throws exactly when retryAttempts invocations threw.
C14_RetryingCaller ==
  [][/\ \A s \in Stages : \A k \in 1..Len(units'[s]) :
          CallerWithinContract(s, units'[s][k], batches'[s][k])
     /\ \A s \in Stages : \A k \in 1..Len(units[s]) :
          (k <= Len(units'[s]) /\ (CallerReturned(units[s][k]) \/ CallerFailed(units[s][k])))
            => /\ units'[s][k].sent = units[s][k].sent
               /\ units'[s][k].outcomes = units[s][k].outcomes]_vars

\* C14 witness: with retryAttempts 2, one detail unit threw after two invocations of
\* its 4 calls while another unit of the window returned on its first
C14_Witness ==
  /\ stage = "details"
  /\ config.retryAttempts = 2
  /\ \E k, j \in 1..Len(units.details) :
       /\ CallerFailed(units.details[k])
       /\ units.details[k].outcomes = <<"threw", "threw">>
       /\ Len(units.details[k].sent[2]) = 4
       /\ units.details[j].st = "done"
       /\ units.details[j].outcomes = <<"answered">>

----------------------------------------------------------------------------
(* Claims about the windows of concurrentMap *)

\* the window concurrentMap is in: its index, and the unit indices it spans
WindowIndex == cmI \div config.concurrency
WindowUnits == {k \in 1..Len(units[stage]) : cmI < k /\ k <= cmI + config.concurrency}
DispatchedUnits(s) == {k \in 1..Len(units[s]) : units[s][k].st # "pending"}

\* the state of a concurrentMap that has rejected
FailedFast ==
  /\ pc = "Failed"
  /\ failure.from = stage
  /\ failure.unit \in WindowUnits
  /\ units[stage][failure.unit].st = "failed"
  /\ units[stage][failure.unit].error = failure.kind
  /\ Cardinality(DispatchedUnits(stage)) <= (WindowIndex + 1) * config.concurrency
  /\ \A k \in 1..Len(units[stage]) :
       k > (WindowIndex + 1) * config.concurrency => units[stage][k] = NewUnit
  /\ stage = "tokenIds" => batches.details = <<>> /\ units.details = <<>>

\* C15: as soon as a unit has used up its attempts concurrentMap has rejected, with
\* the failure of the unit whose failure rejected it (the first of its window to
\* fail), and the failure is never replaced; from then on at most
\* (index of the failing window + 1) * concurrency units have been dispatched and
\* every unit of a later window, and of a later stage, stays as it was created, no
\* call sent.
C15_FailFast ==
  [][/\ \A s \in Stages : \A k \in 1..Len(units'[s]) :
          units'[s][k].error = "RpcError" => cmState' = "rejected"
     /\ cmState' = "rejected" => FailedFast'
     /\ (cmState # "rejected" /\ cmState' = "rejected") =>
          \E k \in WindowUnits :
             /\ units[stage][k].st = "calling" /\ units'[stage][k].st = "failed"
             /\ failure'.unit = k /\ failure'.kind = units'[stage][k].error
     /\ cmState = "rejected" => cmState' = "rejected" /\ failure' = failure]_vars

\* C15 witness: with four detail batches and concurrency 1 the second window failed
\* after two attempts; the first window is done, the third and fourth never started
C15_Witness ==
  /\ cmState = "rejected"
  /\ stage = "details"
  /\ config.concurrency = 1 /\ config.retryAttempts = 2
  /\ Len(units.details) = 4
  /\ units.details[1].st = "done"
  /\ units.details[2].error = "RpcError"
  /\ units.details[3] = NewUnit /\ units.details[4] = NewUnit

\* the units of stage s that issue their first aggregated call in this step
DispatchedNow(s) == {k \in UnitIds : Dispatched(s, k)}

\* the unit indices of window w of n units
WindowOf(w, n) ==
  {k \in 1..n : w * config.concurrency < k /\ k <= (w + 1) * config.concurrency}

\* C16: units are dispatched window by window: a step that dispatches any unit
\* dispatches exactly the units of one window w (concurrency of them, fewer in the
\* last), w being 0 or the successor of the window dispatched before, and finds every
\* unit of the earlier windows done and no unit in flight; while a unit of a window is
\* in flight every unit of the later windows is still undispatched.
C16_WindowBarrier ==
  [][/\ \A s \in Stages :
          DispatchedNow(s) # {} =>
            /\ s = stage
            /\ cmI % config.concurrency = 0
            /\ DispatchedNow(s) = WindowOf(WindowIndex, Len(units[s]))
            /\ Cardinality(DispatchedNow(s)) =
                 Min(config.concurrency, Len(units[s]) - cmI)
            /\ \A k \in 1..cmI : units[s][k].st = "done"
            /\ DispatchedUnits(s) = 1..cmI
            /\ InFlight(s) = {}
     /\ \A s \in Stages : \A k \in InFlight(s)' :
          /\ s = stage'
          /\ k \in WindowOf(WindowIndex', Len(units'[s]))
          /\ \A j \in 1..Len(units'[s]) :
               j > (WindowIndex' + 1) * config.concurrency => units'[s][j].st = "pending"]_vars

\* C16 witness: with concurrency 2 the second window has just started, after a unit
\* of the first window had kept it waiting through a retry
C16_Witness ==
  /\ stage \in Stages
  /\ config.concurrency = 2
  /\ Len(units[stage]) >= 3
  /\ cmI = 2
  /\ units[stage][1].st = "done" /\ units[stage][1].attempt = 2
  /\ units[stage][2].st = "done" /\ units[stage][2].attempt = 1
  /\ units[stage][3].st = "calling"

----------------------------------------------------------------------------
(* Claims about a run that has failed *)

\* the run has failed by a unit of a fetch stage
FailedInStage == pc = "Failed" /\ failure.from \in Stages

\* C17, as stated: when the run enters Failed by a unit of a window, no unit is still
\* in flight.
C17_Original == FailedInStage => InFlight(stage) = {}

\* stage s: a unit notifies in this step; a unit hands the gateway a call array
NotifiesNow(s, k) ==
  /\ units[s][k].st = "calling" /\ units'[s][k].st = "done"
  /\ progress' = Append(progress, Notification(s, processed'[s], StageTotal(s)))
CallsNow(s, k) == Len(units'[s][k].sent) > Len(units[s][k].sent)

\* C17, amended: when the run enters Failed by a unit of a window, that unit has
\* completed and every earlier window is done, but the other units of the failing
\* window may still be in flight; whatever is in flight belongs to the failing
\* window, and a call, a retry or a notification after the failure comes from one of
\* its units, never from a later window.
C17_Stragglers ==
  [][/\ FailedInStage' =>
          /\ units'[stage'][failure'.unit].st = "failed"
          /\ InFlight(stage)' \subseteq WindowUnits'
          /\ \A k \in 1..cmI' : units'[stage'][k].st = "done"
          /\ \A k \in 1..Len(units'[stage']) :
               k > cmI' + config.concurrency => units'[stage'][k] = NewUnit
     /\ (FailedInStage /\ progress' # progress) =>
          \E k \in WindowUnits : NotifiesNow(stage, k)
     /\ FailedInStage =>
          \A k \in 1..Len(units[stage]) :
             CallsNow(stage, k) => k \in WindowUnits /\ units[stage][k].st = "sleeping"]_vars

\* C17 witness: the run has failed by a unit that used up its two attempts while two
\* other units of its window are in flight, one awaiting its answer and one asleep
\* before its retry
C17_Witness ==
  /\ FailedInStage
  /\ failure.kind = "RpcError"
  /\ config.concurrency = 3 /\ config.retryAttempts = 2
  /\ \E j, k \in InFlight(stage) :
       units[stage][j].st = "calling" /\ units[stage][k].st = "sleeping"

\* the run has failed by a unit whose aggregated call threw on every attempt
CallExhausted ==
  FailedInStage /\ units[stage][failure.unit].error = "RpcError"

\* C18, as stated: the failure surfaced when every attempt failed is a CallFailure
\* carrying attempts = retryAttempts and, as cause, the error of the final attempt.
C18_Original ==
  CallExhausted =>
    /\ failure.kind = "CallFailure"
    /\ "attempts" \in DOMAIN failure /\ "cause" \in DOMAIN failure
    /\ failure.attempts = config.retryAttempts
    /\ failure.cause = GatewayError(stage, failure.unit, config.retryAttempts)

\* C18, amended: the failure surfaced when every attempt failed is the error the
\* gateway threw on the final, retryAttempts-th, attempt, itself: it is not wrapped
\* and carries no attempt count (the count is only written to the log).
C18_RawFailure ==
  CallExhausted =>
    /\ failure = GatewayError(stage, failure.unit, config.retryAttempts)
    /\ failure.invocation = Len(units[stage][failure.unit].sent)
    /\ failure.kind = "RpcError"
    /\ "attempts" \notin DOMAIN failure /\ "cause" \notin DOMAIN failure

\* C18 witness: a detail unit threw on both of its two attempts and the run failed
\* with the error of the second
C18_Witness ==
  /\ CallExhausted
  /\ stage = "details"
  /\ config.retryAttempts = 2
  /\ failure.invocation = 2
  /\ units[stage][failure.unit].outcomes = <<"threw", "threw">>

\* the aggregated call of unit k of stage s is answered in this step
AnsweredNow(s, k) ==
  /\ k \in 1..Len(units[s]) /\ k \in 1..Len(units'[s])
  /\ ~CallerReturned(units[s][k]) /\ CallerReturned(units'[s][k])

\* C19: an answer of the gateway either decodes, and the unit is done, or it does
\* not, and then the unit has failed with the decoder's error and the run is Failed
\* with nothing returned; a unit that failed to decode is never touched again: its
\* aggregated call is not issued again and its invocation count stays at the attempt
\* that was answered.
C19_DecodeFatal ==
  [][/\ \A s \in Stages : \A k \in UnitIds :
          AnsweredNow(s, k) =>
            \/ units'[s][k].st = "done"
            \/ /\ units'[s][k].st = "failed" /\ units'[s][k].error = "DecodeError"
               /\ Len(units'[s][k].sent) = units[s][k].attempt
               /\ pc' = "Failed" /\ cmState' = "rejected" /\ returned' = NoResult
               /\ pc # "Failed" => failure' = DecodeError(s, k)
     /\ \A s \in Stages : \A k \in 1..Len(units[s]) :
          units[s][k].error = "DecodeError" =>
            /\ pc = "Failed" /\ pc' = "Failed"
            /\ units'[s][k] = units[s][k]]_vars

\* C19 witness: with two attempts allowed, the first call of a detail unit was
\* answered with bytes that do not decode: the run has failed and the unit has made
\* one invocation
C19_Witness ==
  /\ FailedInStage
  /\ stage = "details"
  /\ config.retryAttempts = 2
  /\ failure.kind = "DecodeError"
  /\ units[stage][failure.unit].outcomes = <<"answered">>
  /\ Len(units[stage][failure.unit].sent) = 1

----------------------------------------------------------------------------
(* Claims about the records *)

\* the registry index of the token with identifier id
IndexOfId(id) == CHOOSE j \in 0..(registrySize - 1) : ToString(RegistryId(j)) = id

\* the owner of token j as the registry holds it, in lower case
OwnerLowerCase(j) ==
  <<"0", "x", "a", "b">> \o (IF j % 2 = 0 THEN <<"c">> ELSE <<"d", "e">>)

\* the record of the token with identifier id as the registry describes it
RecordOfRegistry(id) ==
  [id |-> id, name |-> RegistryName(IndexOfId(id)), did |-> RegistryDid(IndexOfId(id)),
   note |-> "note", allowSubdomain |-> RegistryAllow(IndexOfId(id)),
   owner |-> OwnerLowerCase(IndexOfId(id)), subdomains |-> <<>>]

\* C20: every call array of a detail batch of n identifiers has 2n calls, call 2k the
\* metadata call and call 2k+1 the owner call for the k-th identifier (0 <= k < n);
\* the k-th record of the batch has the k-th identifier as id, name, did, note and
\* allowSubdomain from result 2k, the lower-cased owner from result 2k+1 and an empty
\* subdomains list, so that it is the registry's record of that identifier; the
\* records handed to the Relationship Builder are these, in identifier order.
C20_Interleaving ==
  /\ \A u \in 1..Len(units.details) : \A j \in 1..Len(units.details[u].sent) :
       LET ids == batches.details[u]
           calls == units.details[u].sent[j]
       IN /\ Len(calls) = 2 * Len(ids)
          /\ \A k \in 0..(Len(ids) - 1) :
               /\ calls[2 * k + 1] = [fn |-> "getMetadata", arg |-> ids[k + 1]]
               /\ calls[2 * k + 2] = [fn |-> "ownerOf", arg |-> ids[k + 1]]
  /\ \A u \in 1..Len(units.details) :
       units.details[u].st = "done" =>
         LET ids == batches.details[u]
             answer == Multicall(units.details[u].sent[Len(units.details[u].sent)], 0)
             records == units.details[u].result
         IN /\ Len(records) = Len(ids)
            /\ \A k \in 0..(Len(ids) - 1) :
                 /\ records[k + 1].id = ids[k + 1]
                 /\ records[k + 1].name = answer[2 * k + 1].domain
                 /\ records[k + 1].did = answer[2 * k + 1].did
                 /\ records[k + 1].note = answer[2 * k + 1].notes
                 /\ records[k + 1].allowSubdomain = answer[2 * k + 1].allowSubdomain
                 /\ records[k + 1].owner = OwnerLowerCase(IndexOfId(ids[k + 1]))
                 /\ records[k + 1].subdomains = <<>>
                 /\ records[k + 1] = RecordOfRegistry(ids[k + 1])
  /\ pc = "BuildingRelationships" =>
       /\ Len(domains) = Len(tokenIds)
       /\ \A i \in 1..Len(domains) : domains[i] = RecordOfRegistry(tokenIds[i])

\* C20 witness: a detail batch of two identifiers with different owners is done after
\* a retry, its 4 calls sent twice
C20_Witness ==
  /\ stage = "details"
  /\ \E u \in 1..Len(units.details) :
       /\ units.details[u].st = "done"
       /\ Len(batches.details[u]) = 2
       /\ Len(units.details[u].sent) = 2
       /\ Len(units.details[u].sent[2]) = 4
       /\ units.details[u].result[1].owner # units.details[u].result[2].owner

----------------------------------------------------------------------------
(* Claims about the backoff *)

\* the sum 1 + 2 + ... + n
Triangle(n) == (n * (n + 1)) \div 2

\* the attempts of unit u that threw and were followed by a sleep: all that threw,
\* but for the final one of a call that used up its attempts
SleepsOf(u) ==
  Cardinality({j \in 1..Len(u.outcomes) : u.outcomes[j] = "threw"})
    - (IF CallerFailed(u) THEN 1 ELSE 0)

\* what unit u has slept in all: 1000 * 1 + 1000 * 2 + ... over these attempts
SleptSoFar(u) == 1000 * Triangle(SleepsOf(u))

----------------------------------------------------------------------------
(* Claims about termination *)

RunEnded == pc \in {"Complete", "Failed"}

\* a chunking loop whose step is at least 1 makes at most one batch per item, so a
\* loop that has made more batches than it has items is one that never ends
ChunkingLoopsFinish ==
  /\ Len(batches.tokenIds) <= totalSupply
  /\ Len(batches.details) <= Len(tokenIds)

\* C22: with batchSize, concurrency and retryAttempts all at least 1, any registry
\* size and a gateway that answers every aggregated call, a run eventually reaches
\* Complete or Failed; both chunking loops finish, including for batchSize = 1.
C22_Termination == <>RunEnded /\ []ChunkingLoopsFinish

\* with batchSize at least 2, or with no identifier to look up, the run does end and
\* its chunking loops finish
TerminationFromTwo ==
  (config.batchSize >= 2 \/ registrySize = 0) => (<>RunEnded /\ []ChunkingLoopsFinish)

\* the run that never ends: batchSize 1, the identifier stage returned identifiers
\* and createBatchesFromArray is in its loop with step 0
DetailChunkingSpins ==
  /\ pc = "FetchingDetails"
  /\ config.batchSize = 1
  /\ tokenIds # <<>>
  /\ chunking = "looping"
  /\ Len(batches.details) = MaxSpin

====
